---------------------------- MODULE Spec2Model ----------------------------
(***************************************************************************)
(* A model of structformer/data/sequence_dataset.py: SequenceDataset, the   *)
(* example assembler of StructFormer.  One call of get_raw_data or of       *)
(* prepare_test_data is one action; what the call read, what it returned    *)
(* or raised and what it left behind are the state.                         *)
(*                                                                         *)
(* Numbers.  Lengths are integers (millimetres), angles are integers        *)
(* (quarter turns), so that every pose is a 4x4 integer matrix and the      *)
(* matrix products and inverses of the code are computed exactly.  The      *)
(* recorded scenes are drawn so that the mean of a point cloud is an        *)
(* integer as well.  The dataset is modelled with debug = False.            *)
(***************************************************************************)
EXTENDS Integers, Sequences, FiniteSets, TLC

\* ---------------------------------------------------------------- bounds
\* The largest capacities the dataset under test is constructed with, and
\* the number of points of one object cloud (num_pts).
MaxNumObjects == 3
MaxNumOtherObjects == 2
NumPts == 2
MaxBatch == 2

\* ------------------------------------------------------ program constants
\* max_num_shape_parameters of the dataset of __main__.
MaxNumShapeParameters == 5
\* Rows of a padding cloud: torch.zeros([1024, 3]).
PadRows == 1024
\* The value of a padded pose output: [-100] * 12.
IgnoreValue == -100
\* The type id of the structure token: struct_token_type_index = [3].
StructTokenType == 3
\* Raw depth is scaled by 1 / 20000.
DepthScale == 20000
\* valid1 = depth1 > 0.1 and depth1 < 2. (metres; millimetres here).
DepthNear == 100
DepthFar == 2000

\* Python's None.
None == "None"

\* ------------------------------------------------------------- sequences
\* A list as a tuple of its values.  TLC keeps [i \in 1..n |-> e] as the rule
\* it is and applies the rule anew at every use; concatenation makes the
\* tuple of it, once.
List(f) == f \o <<>>

Range(s) == {s[i] : i \in DOMAIN s}

\* list(range(n)): 0, 1, .., n - 1
PyRange(n) == List([i \in 1..n |-> i - 1])

\* [v] * n
Repeat(v, n) == List([i \in 1..n |-> v])

\* s[::-1]
Reverse(s) == List([i \in 1..Len(s) |-> s[Len(s) + 1 - i]])

\* s[:n] and s[n:] with 0 <= n
Take(s, n) == IF n >= Len(s) THEN s ELSE SubSeq(s, 1, n)
Drop(s, n) == IF n >= Len(s) THEN <<>> ELSE SubSeq(s, n + 1, Len(s))

\* Every arrangement of 0 .. n-1 as a list: the outcomes of random.shuffle.
Permutations0(n) ==
    {p \in [1..n -> 0..(n - 1)] : \A i, j \in 1..n : i # j => p[i] # p[j]}

\* --------------------------------------------------------------- poses
\* A pose is a 4x4 matrix, a tuple of four rows.
Eye4 ==
    << <<1, 0, 0, 0>>, <<0, 1, 0, 0>>, <<0, 0, 1, 0>>, <<0, 0, 0, 1>> >>

\* A @ B
MatMul(A, B) ==
    List([i \in 1..4 |-> List([j \in 1..4 |->
        A[i][1] * B[1][j] + A[i][2] * B[2][j] + A[i][3] * B[3][j] + A[i][4] * B[4][j]])])

\* The determinant and the cofactors of the upper left 3x3 block.
Det3(M) ==
      M[1][1] * (M[2][2] * M[3][3] - M[2][3] * M[3][2])
    - M[1][2] * (M[2][1] * M[3][3] - M[2][3] * M[3][1])
    + M[1][3] * (M[2][1] * M[3][2] - M[2][2] * M[3][1])

Nxt3(i) == (i % 3) + 1

Cofactor3(M, i, j) ==
    LET i1 == Nxt3(i)
        i2 == Nxt3(Nxt3(i))
        j1 == Nxt3(j)
        j2 == Nxt3(Nxt3(j))
    IN  M[i1][j1] * M[i2][j2] - M[i1][j2] * M[i2][j1]

\* np.linalg.inv of a pose [A t; 0 1] whose block A has determinant 1 or -1
\* (every recorded pose is rigid): [A^-1, -A^-1 t; 0 1], A^-1 = adj(A) / det.
MatInv(M) ==
    LET d  == Det3(M)
        Ai == List([i \in 1..3 |-> List([j \in 1..3 |-> d * Cofactor3(M, j, i)])])
        ti == List([i \in 1..3 |->
                 0 - (Ai[i][1] * M[1][4] + Ai[i][2] * M[2][4] + Ai[i][3] * M[3][4])])
    IN  List([i \in 1..4 |-> List([j \in 1..4 |->
            IF i = 4 THEN (IF j = 4 THEN 1 ELSE 0)
            ELSE IF j = 4 THEN ti[i] ELSE Ai[i][j]])])

\* M with M[:3, 3] = p
SetTranslation(M, p) ==
    List([i \in 1..4 |-> List([j \in 1..4 |->
        IF i <= 3 /\ j = 4 THEN p[i] ELSE M[i][j]])])

\* M[:3, 3]
TranslationOf(M) == <<M[1][4], M[2][4], M[3][4]>>

\* R = np.eye(4); R[:3, :3] = M[:3, :3]
RotationOf(M) ==
    List([i \in 1..4 |-> List([j \in 1..4 |->
        IF i <= 3 /\ j <= 3 THEN M[i][j] ELSE Eye4[i][j]])])

\* M[:3, :3].flatten().tolist(): the nine entries, row by row
Flatten3(M) ==
    <<M[1][1], M[1][2], M[1][3], M[2][1], M[2][2], M[2][3], M[3][1], M[3][2], M[3][3]>>

\* cos and sin of q quarter turns
Cos4(q) == CASE q % 4 = 0 -> 1 [] q % 4 = 1 -> 0 [] q % 4 = 2 -> -1 [] OTHER -> 0
Sin4(q) == CASE q % 4 = 0 -> 0 [] q % 4 = 1 -> 1 [] q % 4 = 2 -> 0 [] OTHER -> -1

\* tra.euler_matrix(ai, aj, ak), static axes x, y, z: Rz(ak) Ry(aj) Rx(ai)
EulerMatrix(ai, aj, ak) ==
    LET Rx == << <<1, 0, 0, 0>>, <<0, Cos4(ai), 0 - Sin4(ai), 0>>,
                 <<0, Sin4(ai), Cos4(ai), 0>>, <<0, 0, 0, 1>> >>
        Ry == << <<Cos4(aj), 0, Sin4(aj), 0>>, <<0, 1, 0, 0>>,
                 <<0 - Sin4(aj), 0, Cos4(aj), 0>>, <<0, 0, 0, 1>> >>
        Rz == << <<Cos4(ak), 0 - Sin4(ak), 0, 0>>, <<Sin4(ak), Cos4(ak), 0, 0>>,
                 <<0, 0, 1, 0>>, <<0, 0, 0, 1>> >>
    IN  MatMul(Rz, MatMul(Ry, Rx))

\* trimesh.transform_points of one point: the rotation of M applied, then
\* its translation added.
TransformPoint(M, p) ==
    List([i \in 1..3 |-> M[i][1] * p[1] + M[i][2] * p[2] + M[i][3] * p[3] + M[i][4]])


\* ------------------------------------------------------- names and keys
\* A name is a word followed by the digits of its number: "object_10" is
\* <<"object_", 1, 0>>.  A key of the episode file is "id_" in front of a
\* name (the segmentation id), a name (the recorded poses) or one word.
ObjectNames == { <<"object_", 1>>, <<"object_", 2>>, <<"object_", 1, 0>> }
TableName == <<"table">>

\* The number a name ends in: object_10 -> 10
RECURSIVE DigitsValue(_)
DigitsValue(ds) ==
    IF ds = <<>> THEN 0 ELSE 10 * DigitsValue(SubSeq(ds, 1, Len(ds) - 1)) + ds[Len(ds)]

NameNumber(o) == DigitsValue(Tail(o))

\* "object_" in o
IsObjectName(o) == o[1] = "object_"

\* a < b as Python compares the strings: the first differing character
\* decides, and a proper prefix is smaller.  Both start with the same word.
StrLess(a, b) ==
    \E i \in 2..(Len(a) + 1) :
        /\ \A j \in 2..(i - 1) : j <= Len(b) /\ a[j] = b[j]
        /\ i <= Len(b)
        /\ (i = Len(a) + 1 \/ a[i] < b[i])

\* sorted(S) for a set of names
RECURSIVE Sorted(_)
Sorted(S) ==
    IF S = {} THEN <<>>
    ELSE LET least == CHOOSE x \in S : \A y \in S \ {x} : StrLess(x, y)
         IN  <<least>> \o Sorted(S \ {least})

\* --------------------------------------------------- the episode file
\* One pixel pair per object name, and one pixel of the table.
\* (The tables below are computed once: <<>> @@ f is f with its values
\* worked out.)
ObjectIndexes ==
    <<>> @@ [o \in ObjectNames |->
                1 + Cardinality({x \in ObjectNames : NameNumber(x) < NameNumber(o)})]
ObjectIndex(o) == ObjectIndexes[o]
PixelsOf(o) == {2 * ObjectIndex(o) - 1, 2 * ObjectIndex(o)}
TablePixel == 2 * Cardinality(ObjectNames) + 1
Pixels == 1..TablePixel

SegIdOf(o) == IF o = TableName THEN 1 ELSE 10 + NameNumber(o)

\* The keyframes of an episode: 0, the goal, and one per object moved
Keyframes == 0..Cardinality(ObjectNames)

\* h5[obj]: the recorded poses of an object, keyframe by keyframe
RecordedPoses ==
    <<>> @@ [o \in ObjectNames |->
        <<>> @@ [t \in Keyframes |->
            LET n == ObjectIndex(o)
            IN  SetTranslation(EulerMatrix(t, 0, n + t),
                               <<10 * n + 7 * t, 30 * n - 5 * t, 4 * t + n>>)]]
\* h5[obj][t]: the recorded pose of an object at a keyframe
RecordedPose(o, t) == RecordedPoses[o][t]

\* goal_specification["shape"] of the recorded episodes.  A length is even,
\* so that length / 2.0 is a whole number of millimetres.
CircleShape ==
    [type |-> "circle", rotation |-> <<0, 0, 1>>, position |-> <<120, 240, 12>>,
     radius |-> 300]

Shapes ==
    { CircleShape,
      [type |-> "line", rotation |-> <<0, 0, 3>>, position |-> <<-60, 36, 0>>,
       length |-> 500],
      [type |-> "tower", rotation |-> <<1, 0, 2>>, position |-> <<24, -48, 60>>],
      [type |-> "dinner", rotation |-> <<0, 0, 0>>, position |-> <<0, 12, 0>>],
      [type |-> "stack", rotation |-> <<0, 0, 1>>, position |-> <<12, 12, 0>>] }

\* The list of the goal specification an object is named in.  The first
\* object alone may be an anchor.
Roles == {"rearrange", "anchor", "distract", "none"}
RoleMaps ==
    { r \in [ObjectNames -> Roles] :
        \A o \in ObjectNames : r[o] = "anchor" => o = <<"object_", 1>> }

Listed(r) == {o \in ObjectNames : r[o] # "none"}

\* How one object may be missing from one scene: no pixel carries its id,
\* every pixel of it is out of the depth range, or one of its two pixels is.
NothingHidden == [obj |-> <<"object_", 1>>, goal |-> FALSE, how |-> "shown"]
HiddenChoices(present) ==
    {NothingHidden} \cup
    { [obj |-> o, goal |-> gh[1], how |-> gh[2]] :
        o \in present,
        gh \in { <<FALSE, "seg">>, <<FALSE, "depth">>, <<FALSE, "partial">>,
                 <<TRUE, "seg">> } }

NameList(S) == IF S = {} THEN <<>> ELSE Sorted(S)

\* The files of the dataset.  An episode names its objects in the id map
\* (present), lists them in the goal specification (role), has one of the
\* shapes, and may hide one object in the current or in the goal scene.
\* Every shape is recorded with nothing hidden, the circle with each object
\* hidden, and the circle with an id map that has one object more or one
\* object less than the lists.
EpisodesOf(r) ==
    { [role |-> r, present |-> Listed(r), shape |-> sh, hidden |-> NothingHidden] :
        sh \in Shapes }
    \cup
    { [role |-> r, present |-> Listed(r), shape |-> CircleShape, hidden |-> hd] :
        hd \in HiddenChoices(Listed(r)) }
    \cup
    { [role |-> r, present |-> (Listed(r) \cup {o}) \ (Listed(r) \cap {o}),
       shape |-> CircleShape, hidden |-> NothingHidden] : o \in ObjectNames }

Episodes == UNION { EpisodesOf(r) : r \in RoleMaps }

WithRole(p, r) == {o \in ObjectNames : p.role[o] = r}

GoalSpecification(p) ==
    [rearrange |-> [objects |-> NameList(WithRole(p, "rearrange"))],
     anchor    |-> [objects |-> NameList(WithRole(p, "anchor"))],
     distract  |-> [objects |-> NameList(WithRole(p, "distract"))],
     shape     |-> p.shape]

IsHidden(p, o, t, how) ==
    /\ p.hidden.obj = o
    /\ p.hidden.how = how
    /\ t = (IF p.hidden.goal THEN 0 ELSE Cardinality(WithRole(p, "rearrange")))

\* The object each pixel but the table's shows
PixelOwners == List([px \in 1..(TablePixel - 1) |->
                        CHOOSE o \in ObjectNames : px \in PixelsOf(o)])
OwnerOf(px) == PixelOwners[px]

\* h5["ee_seg"][t]
SegImage(p, t) ==
    List([px \in Pixels |->
        IF px = TablePixel THEN SegIdOf(TableName)
        ELSE LET o == OwnerOf(px)
             IN  IF o \in p.present /\ ~IsHidden(p, o, t, "seg")
                 THEN SegIdOf(o) ELSE SegIdOf(TableName)])

\* h5["ee_depth"][t], raw: 6000 decodes to 1.2 m, 0 to 0 m, 20000 to 4 m
RawDepthImage(p, t) ==
    List([px \in Pixels |->
        IF px = TablePixel THEN 6000
        ELSE LET o == OwnerOf(px)
                 first == px % 2 = 1
             IN  IF IsHidden(p, o, t, "depth") THEN (IF first THEN 0 ELSE 20000)
                 ELSE IF IsHidden(p, o, t, "partial") /\ first THEN 20000
                 ELSE 6000])

\* h5["ee_rgb"][t]: red, green, blue, alpha
RgbaImage(p, t) ==
    List([px \in Pixels |-> <<(40 * px) % 256, (20 * t) % 256, 255 - px, 255>>])

\* The episode file as h5py shows it: a mapping from keys to datasets.
EpisodeFile(p) ==
    LET idKeys   == {<<"id_">> \o o : o \in p.present \cup {TableName}}
        poseKeys == p.present
        others   == { <<"goal_specification">>, <<"ee_rgb">>, <<"ee_depth">>,
                      <<"ee_seg">>, <<"ee_depth_min">>, <<"ee_depth_max">>,
                      <<"ee_camera_view">>, <<"ee_cam_pose">> }
    IN  [k \in idKeys \cup poseKeys \cup others |->
            CASE k \in idKeys -> SegIdOf(Tail(k))
              [] k \in poseKeys -> RecordedPoses[k]
              [] k = <<"goal_specification">> -> GoalSpecification(p)
              [] k = <<"ee_rgb">> -> [t \in Keyframes |-> RgbaImage(p, t)]
              [] k = <<"ee_depth">> -> [t \in Keyframes |-> RawDepthImage(p, t)]
              [] k = <<"ee_seg">> -> [t \in Keyframes |-> SegImage(p, t)]
              [] k = <<"ee_depth_min">> -> [t \in Keyframes |-> 0]
              [] k = <<"ee_depth_max">> -> [t \in Keyframes |-> 4000]
              [] k = <<"ee_camera_view">> ->
                    [t \in Keyframes |-> EulerMatrix(2, 0, 1 + t)]
              [] k = <<"ee_cam_pose">> ->
                    SetTranslation(EulerMatrix(2, 0, 1), <<120, -240, 600>>)]


\* ------------------------------------------------------ the random source
\* One seed stands for the state of the random generators of a call.  The
\* c-th noise draw of the call: the gamma factor as a fraction, and the
\* smoothed Gaussian field, one offset per pixel.
Seeds == 0..1

GammaDraw(seed, c) == <<10 + ((seed + c) % 3), 10>>
GaussianDraw(seed, c) ==
    List([px \in Pixels |-> <<12 * ((seed + px) % 3), 0, 12 * ((c + px) % 2)>>])

\* ------------------------------------------------------ _get_images
\* add_noise_to_depth: one gamma sample multiplies the whole depth image
AddNoiseToDepth(depth_img, gamma) ==
    List([px \in Pixels |-> (gamma[1] * depth_img[px]) \div gamma[2]])

\* add_noise_to_xyz: the noise field is added where depth_img > 0
AddNoiseToXyz(xyz_img, depth_img, field) ==
    List([px \in Pixels |->
        IF depth_img[px] > 0
        THEN List([i \in 1..3 |-> xyz_img[px][i] + field[px][i]])
        ELSE xyz_img[px]])

\* cam.compute_xyz(depth, camera): each pixel's ray scaled by its depth
ComputeXyz(depth_img) ==
    List([px \in Pixels |->
        <<(px - 4) * depth_img[px], ((px % 3) - 1) * depth_img[px], depth_img[px]>>])

\* The noise applied whatever the dataset was constructed with
NoiseAlways(self) == TRUE

\* if self.data_augmentation (lines 148 and 152)
NoiseEnabled(self) == self.data_augmentation

\* _get_images(h5, idx, ee=True); c numbers the noise draws of the call.
\* calls lists the steps the call invoked, in order, and draws the random
\* values it drew from np.random.
GetImages(self, h5, idx, seed, c) ==
    LET dmin   == h5[<<"ee_depth_min">>][idx]
        dmax   == h5[<<"ee_depth_max">>][idx]
        raw_rgb   == h5[<<"ee_rgb">>][idx]
        raw_depth == h5[<<"ee_depth">>][idx]
        rgb1   == List([px \in Pixels |-> SubSeq(raw_rgb[px], 1, 3)])
        depth1 == List([px \in Pixels |->
                     (raw_depth[px] * (dmax - dmin)) \div DepthScale + dmin])
        seg1   == h5[<<"ee_seg">>][idx]
        valid1 == List([px \in Pixels |->
                     depth1[px] > DepthNear /\ depth1[px] < DepthFar])
        depth2 == IF NoiseEnabled(self)
                  THEN AddNoiseToDepth(depth1, GammaDraw(seed, c)) ELSE depth1
        xyz1   == ComputeXyz(depth2)
        xyz2   == IF NoiseEnabled(self)
                  THEN AddNoiseToXyz(xyz1, depth2, GaussianDraw(seed, c)) ELSE xyz1
        cam_pose == SetTranslation(h5[<<"ee_camera_view">>][idx],
                                   TranslationOf(h5[<<"ee_cam_pose">>]))
        xyz3   == List([px \in Pixels |-> TransformPoint(cam_pose, xyz2[px])])
    IN  [rgb |-> rgb1, depth |-> depth2, seg |-> seg1, valid |-> valid1, xyz |-> xyz3,
         calls |-> (IF NoiseEnabled(self) THEN <<"add_noise_to_depth">> ELSE <<>>)
                   \o <<"compute_xyz">>
                   \o (IF NoiseEnabled(self) THEN <<"add_noise_to_xyz">> ELSE <<>>)
                   \o <<"transform_points">>,
         draws |-> (IF NoiseEnabled(self) THEN <<"gamma">> ELSE <<>>)
                   \o (IF NoiseEnabled(self) THEN <<"randint", "uniform", "normal">>
                       ELSE <<>>)]

\* _get_ids(h5): the keys that start with "id_", without those three letters
GetIds(h5) ==
    LET idKeys == {k \in DOMAIN h5 : Head(k) = "id_"}
    IN  [o \in {Tail(k) : k \in idKeys} |-> h5[<<"id_">> \o o]]

\* ------------------------------------------------------ point clouds
\* A cloud: its number of rows and its points; a cloud of zeros keeps no
\* points.
Cloud(points) == [rows |-> Len(points), points |-> points]
ZeroCloud(rows) == [rows |-> rows, points |-> <<>>]

\* torch.mean(obj_xyz, dim=0)
CloudMean(cloud) ==
    List([i \in 1..3 |->
        LET RECURSIVE Sum(_)
            Sum(n) == IF n = 0 THEN 0 ELSE Sum(n - 1) + cloud.points[n][i]
        IN  Sum(cloud.rows) \div cloud.rows])

\* The pixels of a mask in image order
RECURSIVE MaskedPixels(_, _)
MaskedPixels(mask, px) ==
    IF px > TablePixel THEN <<>>
    ELSE (IF mask[px] THEN <<px>> ELSE <<>>) \o MaskedPixels(mask, px + 1)

\* get_pts(xyz, rgb, mask, num_pts): num_pts of the masked points, drawn
\* with replacement when the mask has fewer, without replacement otherwise;
\* not ok when the mask is empty.
GetPts(xyz, rgb, mask, num_pts, seed) ==
    LET sel == MaskedPixels(mask, 1)
        n   == Len(sel)
        pick == List([j \in 1..num_pts |-> sel[1 + ((seed + j) % n)]])
    IN  IF n = 0 THEN [ok |-> FALSE]
        ELSE [ok |-> TRUE,
              xyz |-> Cloud(List([j \in 1..num_pts |-> xyz[pick[j]]])),
              rgb |-> Cloud(List([j \in 1..num_pts |-> rgb[pick[j]]]))]


\* ------------------------------------------------------ get_raw_data
\* What a call ends with: a returned record, or a raised exception with
\* its arguments.  trace lists the reads of the episode file the call made.
Return(datum, trace, locals) ==
    [status |-> "return", datum |-> datum, trace |-> trace, locals |-> locals]
Raise(exc, args, trace) ==
    [status |-> "raise", exc |-> exc, args |-> args, trace |-> trace]

\* np.sum(obj_mask)
MaskSum(mask) == Cardinality({px \in Pixels : mask[px]})

\* The mask without the valid depths
ObjMaskOfSeg(scene, id) == List([px \in Pixels |-> scene.seg[px] = id])

\* obj_mask = np.logical_and(seg == ids[obj], valid)
ObjMask(scene, id) ==
    List([px \in Pixels |-> scene.seg[px] = id /\ scene.valid[px]])

\* if np.sum(obj_mask) <= 0: raise Exception
MaskIsEmpty(mask) == MaskSum(mask) <= 0

NoClouds ==
    [raised |-> FALSE, obj_xyzs |-> <<>>, obj_rgbs |-> <<>>, object_pad_mask |-> <<>>,
     obj_pc_centers |-> <<>>, other_obj_xyzs |-> <<>>, other_obj_rgbs |-> <<>>,
     other_object_pad_mask |-> <<>>]

\* for obj in all_objs: the clouds of the current scene (lines 254-272).
\* ctx holds what the loop reads; acc what it has appended so far.
RECURSIVE ObjectLoop(_, _, _)
ObjectLoop(ctx, i, acc) ==
    IF i > Len(ctx.all_objs) THEN acc
    ELSE
      LET obj      == ctx.all_objs[i]
          obj_mask == ObjMask(ctx.scene, ctx.ids[obj])
          pts      == GetPts(ctx.scene.xyz, ctx.scene.rgb, obj_mask, ctx.num_pts,
                             ctx.seed + i)
      IN  IF MaskIsEmpty(obj_mask) THEN [acc EXCEPT !.raised = TRUE]
          ELSE IF ~pts.ok THEN [acc EXCEPT !.raised = TRUE]
          ELSE IF obj \in Range(ctx.target_objs) THEN
              ObjectLoop(ctx, i + 1,
                  [acc EXCEPT !.obj_xyzs = Append(@, pts.xyz),
                              !.obj_rgbs = Append(@, pts.rgb),
                              !.object_pad_mask = Append(@, 0),
                              !.obj_pc_centers = Append(@, CloudMean(pts.xyz))])
          ELSE IF obj \in Range(ctx.other_objs) THEN
              ObjectLoop(ctx, i + 1,
                  [acc EXCEPT !.other_obj_xyzs = Append(@, pts.xyz),
                              !.other_obj_rgbs = Append(@, pts.rgb),
                              !.other_object_pad_mask = Append(@, 0)])
          ELSE [acc EXCEPT !.raised = TRUE]

NoGoalClouds == [raised |-> FALSE, goal_obj_xyzs |-> <<>>, goal_obj_rgbs |-> <<>>]

\* if inference_mode: for obj in all_objs: the clouds of the goal scene
\* (lines 279-288)
RECURSIVE GoalObjectLoop(_, _, _)
GoalObjectLoop(ctx, i, acc) ==
    IF i > Len(ctx.all_objs) THEN acc
    ELSE
      LET obj      == ctx.all_objs[i]
          obj_mask == ObjMask(ctx.scene, ctx.ids[obj])
          pts      == GetPts(ctx.scene.xyz, ctx.scene.rgb, obj_mask, ctx.num_pts,
                             ctx.seed + i)
      IN  IF MaskIsEmpty(obj_mask) THEN [acc EXCEPT !.raised = TRUE]
          ELSE IF ~pts.ok THEN [acc EXCEPT !.raised = TRUE]
          ELSE IF obj \in Range(ctx.target_objs) THEN
              GoalObjectLoop(ctx, i + 1,
                  [acc EXCEPT !.goal_obj_xyzs = Append(@, pts.xyz),
                              !.goal_obj_rgbs = Append(@, pts.rgb)])
          ELSE GoalObjectLoop(ctx, i + 1, acc)

\* The structure types that do not end in raise KeyError (lines 233-238)
TypeIsRecognized(type) ==
    type = "circle" \/ type = "line" \/ type = "tower" \/ type = "dinner"

\* The order reversed whatever the type
OrderTargetsReversed(type, target_objs) == Reverse(target_objs)

\* The order of the target objects of a recognized type (lines 233-236)
OrderTargets(type, target_objs) ==
    IF type = "circle" \/ type = "line" THEN Reverse(target_objs)
    ELSE target_objs

\* structure_pose (lines 293-296)
StructurePose(structure_parameters) ==
    SetTranslation(
        EulerMatrix(structure_parameters.rotation[1], structure_parameters.rotation[2],
                    structure_parameters.rotation[3]),
        <<structure_parameters.position[1], structure_parameters.position[2],
          structure_parameters.position[3]>>)

\* current_pc_pose (lines 302-303)
CurrentPcPose(obj_pc_center) == SetTranslation(Eye4, obj_pc_center)

\* goal_pc_pose with the inverse of the current pose applied first
GoalPcPoseSwapped(use_structure_frame, structure_pose_inv, goal_pose, current_pose, current_pc_pose) ==
    IF use_structure_frame
    THEN MatMul(MatMul(MatMul(structure_pose_inv, MatInv(current_pose)), goal_pose),
                current_pc_pose)
    ELSE MatMul(MatMul(MatInv(current_pose), goal_pose), current_pc_pose)

\* goal_pc_pose (lines 309-312)
GoalPcPose(use_structure_frame, structure_pose_inv, goal_pose, current_pose, current_pc_pose) ==
    IF use_structure_frame
    THEN MatMul(MatMul(MatMul(structure_pose_inv, goal_pose), MatInv(current_pose)),
                current_pc_pose)
    ELSE MatMul(MatMul(goal_pose, MatInv(current_pose)), current_pc_pose)

\* The goal pose of the cloud of target_objs[j] (lines 301-319): the pose of
\* keyframe 0 as the goal, the pose of keyframe step_t as the current one.
TargetPcPose(self, h5, structure_pose_inv, obj, obj_pc_center, step_t) ==
    LET current_pc_pose == CurrentPcPose(obj_pc_center)
        goal_pose       == h5[obj][0]
        current_pose    == h5[obj][step_t]
    IN  GoalPcPose(self.use_structure_frame, structure_pose_inv, goal_pose,
                   current_pose, current_pc_pose)

\* [x, y, z] + theta of one target object (lines 408-414)
XyTheta(goal_obj_center, R) ==
    <<goal_obj_center[1], goal_obj_center[2], goal_obj_center[3]>> \o Flatten3(R)

\* The sentence with the length of a line in the place of its half
SentenceOfLength(structure_parameters) ==
    LET first4 == << <<structure_parameters.type, "shape">>,
                     <<structure_parameters.rotation[3], "rotation">>,
                     <<structure_parameters.position[1], "position_x">>,
                     <<structure_parameters.position[2], "position_y">> >>
    IN  IF structure_parameters.type = "circle" \/ structure_parameters.type = "line"
        THEN [sentence |->
                 IF structure_parameters.type = "circle"
                 THEN Append(first4, <<structure_parameters.radius, "radius">>)
                 ELSE Append(first4, <<structure_parameters.length, "radius">>),
              sentence_pad_mask |-> Repeat(0, 5)]
        ELSE [sentence |-> Append(first4, <<"PAD", None>>),
              sentence_pad_mask |-> Append(Repeat(0, 4), 1)]

\* The sentence of get_raw_data (lines 359-384)
Sentence(structure_parameters) ==
    LET first4 == << <<structure_parameters.type, "shape">>,
                     <<structure_parameters.rotation[3], "rotation">>,
                     <<structure_parameters.position[1], "position_x">>,
                     <<structure_parameters.position[2], "position_y">> >>
    IN  IF structure_parameters.type = "circle" \/ structure_parameters.type = "line"
        THEN [sentence |->
                 IF structure_parameters.type = "circle"
                 THEN Append(first4, <<structure_parameters.radius, "radius">>)
                 ELSE Append(first4, <<structure_parameters.length \div 2, "radius">>),
              sentence_pad_mask |-> Repeat(0, 5)]
        ELSE [sentence |-> Append(first4, <<"PAD", None>>),
              sentence_pad_mask |-> Append(Repeat(0, 4), 1)]

\* token_type_index and position_index (lines 456-457)
TokenTypeIndex(self) ==
    Repeat(0, self.max_num_shape_parameters) \o Repeat(1, self.max_num_other_objects)
        \o Repeat(2, self.max_num_objects)
\* The positions counted on from one zone to the next
PositionIndexRunning(self) ==
    PyRange(self.max_num_shape_parameters + self.max_num_other_objects
            + self.max_num_objects)

PositionIndex(self) ==
    PyRange(self.max_num_shape_parameters) \o PyRange(self.max_num_other_objects)
        \o PyRange(self.max_num_objects)

\* The padding with range(cap) in the place of range(cap - n)
PadToFull(list, pad, cap, n) == list \o Repeat(pad, cap)

\* The padding of a list up to a capacity: for i in range(cap - n): append
PadTo(list, pad, cap, n) == list \o Repeat(pad, IF cap > n THEN cap - n ELSE 0)

\* shuffle_object_indices with the indices of the pad slots put in front
ShuffleObjectIndicesPadsFirst(perm, num_targets, max_num_objects) ==
    [i \in 1..(IF max_num_objects > num_targets
                THEN max_num_objects - num_targets ELSE 0) |->
        num_targets + i - 1] \o perm

\* shuffle_object_indices (lines 465-467); perm is what random.shuffle left
ShuffleObjectIndices(perm, num_targets, max_num_objects) ==
    perm \o [i \in 1..(IF max_num_objects > num_targets
                       THEN max_num_objects - num_targets ELSE 0) |->
                num_targets + i - 1]

\* [list[i] for i in indices] (lines 468-476)
Gather(list, indices) == List([j \in 1..Len(indices) |-> list[indices[j] + 1]])

\* Whether [list[i] for i in indices] raises IndexError
GatherFails(list, indices) == \E j \in 1..Len(indices) : indices[j] >= Len(list)


\* all_objs = sorted([o for o in ids.keys() if "object_" in o])
AllObjs(ids) == NameList({o \in DOMAIN ids : IsObjectName(o)})

\* The poses of the targets and the x, y, z, theta rows (lines 299-319 and
\* 406-414), in the order of target_objs and obj_pc_centers.
ObjXyThetas(self, h5, structure_parameters, target_objs, obj_pc_centers, step_t) ==
    LET structure_pose_inv ==
            IF self.use_structure_frame
            THEN MatInv(StructurePose(structure_parameters)) ELSE Eye4
    IN  List([j \in 1..Len(target_objs) |->
            LET goal_pc_pose == TargetPcPose(self, h5, structure_pose_inv, target_objs[j],
                                             obj_pc_centers[j], step_t)
            IN  XyTheta(TranslationOf(goal_pc_pose), RotationOf(goal_pc_pose))])

\* struct_xytheta_inputs (lines 395-401)
StructXyTheta(structure_parameters) ==
    << <<structure_parameters.position[1], structure_parameters.position[2],
         structure_parameters.position[3]>>
       \o Flatten3(EulerMatrix(structure_parameters.rotation[1],
                               structure_parameters.rotation[2],
                               structure_parameters.rotation[3])) >>

\* The condition with objects the goal specification does not list let by
CountsAtLeast(all_objs, num_rearrange_objs, num_other_objs) ==
    Len(all_objs) >= num_rearrange_objs + num_other_objs

\* The condition of the assert of line 221
CountsAgree(all_objs, num_rearrange_objs, num_other_objs) ==
    Len(all_objs) = num_rearrange_objs + num_other_objs

\* The pad row of the outputs filled with zeros
OutputPadZeros == Repeat(0, 12)

\* [-100] * 12 and [0] * 12: the pad rows of obj_xytheta_outputs and of
\* obj_xytheta_inputs (lines 421-424)
OutputPad == Repeat(IgnoreValue, 12)
InputPad == Repeat(0, 12)

\* get_raw_data down to line 461: the exception raised, or the locals the
\* shuffle and the record are made from.
BeforeShuffle(self, h5, filename, inference_mode, seed) ==
    LET ids == GetIds(h5)
        all_objs0 == AllObjs(ids)
        goal_specification == h5[<<"goal_specification">>]
        num_rearrange_objs == Len(goal_specification.rearrange.objects)
        num_other_objs ==
            Len(goal_specification.anchor.objects \o goal_specification.distract.objects)
        step_t == num_rearrange_objs
        structure_parameters == goal_specification.shape
        target_objs == OrderTargets(structure_parameters.type,
                                    Take(all_objs0, num_rearrange_objs))
        other_objs == Drop(all_objs0, num_rearrange_objs)
        all_objs == target_objs \o other_objs
        scene == GetImages(self, h5, step_t, seed, 0)
        cur == ObjectLoop([all_objs |-> all_objs, target_objs |-> target_objs,
                           other_objs |-> other_objs, ids |-> ids, scene |-> scene,
                           num_pts |-> self.num_pts, seed |-> seed], 1, NoClouds)
        goal_scene == GetImages(self, h5, 0, seed, 1)
        goal == IF inference_mode
                THEN GoalObjectLoop([all_objs |-> all_objs, target_objs |-> target_objs,
                                     ids |-> ids, scene |-> goal_scene,
                                     num_pts |-> self.num_pts, seed |-> seed],
                                    1, NoGoalClouds)
                ELSE NoGoalClouds
        num_pads == IF self.max_num_objects > Len(target_objs)
                    THEN self.max_num_objects - Len(target_objs) ELSE 0
        sent == Sentence(structure_parameters)
        xythetas == ObjXyThetas(self, h5, structure_parameters, target_objs,
                                cur.obj_pc_centers, step_t)
        opened == <<"h5py.File">>
        read1  == Append(opened, "_get_images")
        read2  == IF inference_mode THEN Append(read1, "_get_images") ELSE read1
    IN  IF ~CountsAgree(all_objs0, num_rearrange_objs, num_other_objs)
        THEN Raise("AssertionError",
                   <<Len(all_objs0), num_rearrange_objs + num_other_objs>>, opened)
        ELSE IF ~(num_rearrange_objs <= self.max_num_objects)
        THEN Raise("AssertionError", <<>>, opened)
        ELSE IF ~(num_other_objs <= self.max_num_other_objects)
        THEN Raise("AssertionError", <<>>, opened)
        ELSE IF ~TypeIsRecognized(structure_parameters.type)
        THEN Raise("KeyError", <<structure_parameters.type>>, opened)
        ELSE IF cur.raised THEN Raise("Exception", <<>>, read1)
        ELSE IF goal.raised THEN Raise("Exception", <<>>, read2)
        ELSE IF Len(PadTo(cur.obj_xyzs, ZeroCloud(PadRows), self.max_num_objects,
                           Len(target_objs)))
                # Len(PadTo(xythetas, OutputPad, self.max_num_objects,
                            Len(target_objs)))
        THEN Raise("AssertionError", <<>>, read2)
        ELSE
        [status |-> "locals",
         trace |-> read2,
         filename |-> filename,
         step_t |-> step_t,
         target_objs |-> target_objs,
         other_objs |-> other_objs,
         structure_parameters |-> structure_parameters,
         rgb |-> scene.rgb,
         goal_rgb |-> goal_scene.rgb,
         goal_xyz |-> goal_scene.xyz,
         goal_obj_xyzs |-> goal.goal_obj_xyzs,
         goal_obj_rgbs |-> goal.goal_obj_rgbs,
         obj_xyzs |-> PadTo(cur.obj_xyzs, ZeroCloud(PadRows), self.max_num_objects,
                            Len(target_objs)),
         obj_rgbs |-> PadTo(cur.obj_rgbs, ZeroCloud(PadRows), self.max_num_objects,
                            Len(target_objs)),
         object_pad_mask |-> PadTo(cur.object_pad_mask, 1, self.max_num_objects,
                                   Len(target_objs)),
         other_obj_xyzs |-> PadTo(cur.other_obj_xyzs, ZeroCloud(PadRows),
                                  self.max_num_other_objects, Len(other_objs)),
         other_obj_rgbs |-> PadTo(cur.other_obj_rgbs, ZeroCloud(PadRows),
                                  self.max_num_other_objects, Len(other_objs)),
         other_object_pad_mask |-> PadTo(cur.other_object_pad_mask, 1,
                                         self.max_num_other_objects, Len(other_objs)),
         sentence |-> sent.sentence,
         sentence_pad_mask |-> sent.sentence_pad_mask,
         obj_xytheta_outputs |-> PadTo(xythetas, OutputPad,
                                       self.max_num_objects, Len(target_objs)),
         obj_xytheta_inputs |-> PadTo(xythetas, InputPad,
                                      self.max_num_objects, Len(target_objs)),
         goal_obj_poses |-> PadTo(List([j \in 1..Len(target_objs) |-> h5[target_objs[j]][0]]),
                                  None, self.max_num_objects, Len(target_objs)),
         current_obj_poses |->
             PadTo(List([j \in 1..Len(target_objs) |-> h5[target_objs[j]][step_t]]),
                   None, self.max_num_objects, Len(target_objs)),
         struct_xytheta_inputs |-> StructXyTheta(structure_parameters),
         token_type_index |-> TokenTypeIndex(self),
         position_index |-> PositionIndex(self)]


\* [i[0] for i in rows], [i[1] ..], [i[2] ..], [i[3:] ..] (lines 479-491)
Column(rows, c) == List([j \in 1..Len(rows) |-> rows[j][c]])
ThetaColumn(rows) == List([j \in 1..Len(rows) |-> SubSeq(rows[j], 4, Len(rows[j]))])

\* The record of lines 493-534 from the (shuffled) lists.
Datum(self, L, inference_mode) ==
    [xyzs |-> L.obj_xyzs,
     rgbs |-> L.obj_rgbs,
     object_pad_mask |-> L.object_pad_mask,
     other_xyzs |-> L.other_obj_xyzs,
     other_rgbs |-> L.other_obj_rgbs,
     other_object_pad_mask |-> L.other_object_pad_mask,
     sentence |-> L.sentence,
     sentence_pad_mask |-> L.sentence_pad_mask,
     token_type_index |-> L.token_type_index,
     obj_x_outputs |-> Column(L.obj_xytheta_outputs, 1),
     obj_y_outputs |-> Column(L.obj_xytheta_outputs, 2),
     obj_z_outputs |-> Column(L.obj_xytheta_outputs, 3),
     obj_theta_outputs |-> ThetaColumn(L.obj_xytheta_outputs),
     obj_x_inputs |-> Column(L.obj_xytheta_inputs, 1),
     obj_y_inputs |-> Column(L.obj_xytheta_inputs, 2),
     obj_z_inputs |-> Column(L.obj_xytheta_inputs, 3),
     obj_theta_inputs |-> ThetaColumn(L.obj_xytheta_inputs),
     position_index |-> L.position_index,
     t |-> L.step_t,
     filename |-> L.filename]
    @@ (IF self.use_structure_frame
        THEN [struct_position_index |-> <<0>>,
              struct_token_type_index |-> <<StructTokenType>>,
              struct_pad_mask |-> <<0>>,
              struct_x_inputs |-> Column(L.struct_xytheta_inputs, 1),
              struct_y_inputs |-> Column(L.struct_xytheta_inputs, 2),
              struct_z_inputs |-> Column(L.struct_xytheta_inputs, 3),
              struct_theta_inputs |-> ThetaColumn(L.struct_xytheta_inputs)]
        ELSE <<>>)
    @@ (IF inference_mode
        THEN [goal_xyz |-> L.goal_xyz,
              rgb |-> L.rgb,
              goal_rgb |-> L.goal_rgb,
              goal_obj_poses |-> L.goal_obj_poses,
              current_obj_poses |-> L.current_obj_poses,
              target_objs |-> L.target_objs,
              goal_xyzs |-> L.goal_obj_xyzs,
              goal_rgbs |-> L.goal_obj_rgbs]
        ELSE <<>>)

\* The lists after the shuffle of lines 464-476
Shuffled(L, indices, inference_mode) ==
    [L EXCEPT !.obj_xyzs = Gather(@, indices),
              !.obj_rgbs = Gather(@, indices),
              !.obj_xytheta_outputs = Gather(@, indices),
              !.obj_xytheta_inputs = Gather(@, indices),
              !.object_pad_mask = Gather(@, indices),
              !.goal_obj_poses = IF inference_mode THEN Gather(@, indices) ELSE @,
              !.current_obj_poses = IF inference_mode THEN Gather(@, indices) ELSE @,
              !.target_objs = IF inference_mode THEN Gather(@, indices) ELSE @]

\* get_raw_data from line 463 on.  perm is the list random.shuffle leaves;
\* the locals of the call before the shuffle go with the record.
AfterShuffle(self, L, inference_mode, shuffle_object_index, perm) ==
    LET indices == ShuffleObjectIndices(perm, Len(L.target_objs), self.max_num_objects)
        locals  == [target_objs |-> L.target_objs, other_objs |-> L.other_objs,
                    shuffle_object_indices |->
                        IF shuffle_object_index THEN indices ELSE <<>>]
    IN  IF ~shuffle_object_index
        THEN Return(Datum(self, L, inference_mode), L.trace, locals)
        ELSE IF inference_mode /\ GatherFails(L.target_objs, indices)
        THEN Raise("IndexError", <<>>, L.trace)
        ELSE Return(Datum(self, Shuffled(L, indices, inference_mode), inference_mode),
                    L.trace, locals)


\* ------------------------------------------------------ prepare_test_data
\* The sentence of prepare_test_data (lines 556-579)
TestSentence(structure_parameters) ==
    LET first4 == << <<structure_parameters.type, "shape">>,
                     <<structure_parameters.rotation[3], "rotation">>,
                     <<structure_parameters.position[1], "position_x">>,
                     <<structure_parameters.position[2], "position_y">> >>
    IN  IF structure_parameters.type = "circle" \/ structure_parameters.type = "line"
        THEN [sentence |->
                 IF structure_parameters.type = "circle"
                 THEN Append(first4, <<structure_parameters.radius, "radius">>)
                 ELSE Append(first4, <<structure_parameters.length \div 2, "radius">>),
              sentence_pad_mask |-> Repeat(0, 5)]
        ELSE [sentence |-> Append(first4, <<"PAD", None>>),
              sentence_pad_mask |-> Append(Repeat(0, 4), 1)]

\* The four lists of the caller after lines 546-553 appended to them
PaddedLists(self, lists) ==
    LET n == Len(lists.obj_xyzs)
        m == Len(lists.other_obj_xyzs)
    IN  [obj_xyzs |-> PadTo(lists.obj_xyzs, ZeroCloud(PadRows), self.max_num_objects, n),
         obj_rgbs |-> PadTo(lists.obj_rgbs, ZeroCloud(PadRows), self.max_num_objects, n),
         other_obj_xyzs |-> PadTo(lists.other_obj_xyzs, ZeroCloud(PadRows),
                                  self.max_num_other_objects, m),
         other_obj_rgbs |-> PadTo(lists.other_obj_rgbs, ZeroCloud(PadRows),
                                  self.max_num_other_objects, m)]

\* prepare_test_data(obj_xyzs, obj_rgbs, other_obj_xyzs, other_obj_rgbs,
\* structure_parameters): the record it returns.  The lists of the record
\* are the caller's lists, padded in place.
PrepareTestDatum(self, lists, structure_parameters) ==
    LET padded == PaddedLists(self, lists)
        sent   == TestSentence(structure_parameters)
    IN  [xyzs |-> padded.obj_xyzs,
         rgbs |-> padded.obj_rgbs,
         object_pad_mask |->
             PadTo(Repeat(0, Len(lists.obj_xyzs)), 1, self.max_num_objects,
                   Len(lists.obj_xyzs)),
         other_xyzs |-> padded.other_obj_xyzs,
         other_rgbs |-> padded.other_obj_rgbs,
         other_object_pad_mask |->
             PadTo(Repeat(0, Len(lists.other_obj_xyzs)), 1, self.max_num_other_objects,
                   Len(lists.other_obj_xyzs)),
         sentence |-> sent.sentence,
         sentence_pad_mask |-> sent.sentence_pad_mask,
         token_type_index |-> TokenTypeIndex(self),
         obj_x_outputs |-> Repeat(0, self.max_num_objects),
         obj_y_outputs |-> Repeat(0, self.max_num_objects),
         obj_z_outputs |-> Repeat(0, self.max_num_objects),
         obj_theta_outputs |-> Repeat(Repeat(0, 9), self.max_num_objects),
         obj_x_inputs |-> Repeat(0, self.max_num_objects),
         obj_y_inputs |-> Repeat(0, self.max_num_objects),
         obj_z_inputs |-> Repeat(0, self.max_num_objects),
         obj_theta_inputs |-> Repeat(Repeat(0, 9), self.max_num_objects),
         position_index |-> PositionIndex(self),
         struct_position_index |-> <<0>>,
         struct_token_type_index |-> <<StructTokenType>>,
         struct_pad_mask |-> <<0>>,
         struct_x_inputs |-> <<0>>,
         struct_y_inputs |-> <<0>>,
         struct_z_inputs |-> <<0>>,
         struct_theta_inputs |-> <<Repeat(0, 9)>>,
         t |-> 0,
         filename |-> ""]

\* The clouds a caller of prepare_test_data segments itself: n clouds of
\* num_pts points each.
TestClouds(self, n) ==
    List([j \in 1..n |-> Cloud(List([i \in 1..self.num_pts |-> <<12 * j, 12 * i, 24>>]))])

NoLists ==
    [obj_xyzs |-> <<>>, obj_rgbs |-> <<>>, other_obj_xyzs |-> <<>>, other_obj_rgbs |-> <<>>]

\* ------------------------------------------ convert_to_tensors, collate_fn
\* A tensor: its shape, and its entries along the first dimension.  A cloud
\* of zeros keeps no entries.
Tensor(shape, data) == [shape |-> shape, data |-> data]

\* torch.LongTensor(list), torch.FloatTensor(list) of a flat list
ListTensor(list) == Tensor(<<Len(list)>>, list)
\* torch.FloatTensor(rows) of a list of rows of n entries each
RowsTensor(rows, n) == Tensor(<<Len(rows), n>>, rows)
\* A cloud as the tensor it is
CloudTensor(cloud) == Tensor(<<cloud.rows, 3>>, cloud.points)

\* Whether torch.stack(tensors, dim=0) raises RuntimeError: the list is
\* empty, or the tensors are not all of one shape
StackFails(tensors) ==
    \/ Len(tensors) = 0
    \/ \E i \in 1..Len(tensors) : tensors[i].shape # tensors[1].shape

\* The tensors joined along their first dimension in the place of a new one
StackFlat(tensors) ==
    Tensor(<<Len(tensors) * tensors[1].shape[1]>> \o Tail(tensors[1].shape),
           List([i \in 1..(Len(tensors) * tensors[1].shape[1]) |-> 0]))

\* torch.stack(tensors, dim=0)
Stack(tensors) ==
    Tensor(<<Len(tensors)>> \o tensors[1].shape,
           List([i \in 1..Len(tensors) |-> tensors[i].data]))

\* Whether torch.cat(tensors, dim=0) raises RuntimeError: the list is empty,
\* or the tensors differ in a dimension after the first
CatFails(tensors) ==
    \/ Len(tensors) = 0
    \/ \E i \in 1..Len(tensors) : Tail(tensors[i].shape) # Tail(tensors[1].shape)

RECURSIVE SumDim0(_, _)
SumDim0(tensors, n) ==
    IF n = 0 THEN 0 ELSE SumDim0(tensors, n - 1) + tensors[n].shape[1]

RECURSIVE ConcatData(_, _)
ConcatData(tensors, n) ==
    IF n = 0 THEN <<>> ELSE ConcatData(tensors, n - 1) \o tensors[n].data

\* torch.cat(tensors, dim=0)
Cat(tensors) ==
    Tensor(<<SumDim0(tensors, Len(tensors))>> \o Tail(tensors[1].shape),
           ConcatData(tensors, Len(tensors)))

\* tokenizer.tokenize(value, type): an integer id of the vocabulary
Tokenize(pair) ==
    CASE pair[2] = None -> 0
      [] pair[2] = "shape" ->
            (CASE pair[1] = "circle" -> 1 [] pair[1] = "line" -> 2
               [] pair[1] = "tower" -> 3 [] pair[1] = "dinner" -> 4 [] OTHER -> 5)
      [] pair[2] = "rotation" -> 10 + (pair[1] % 4)
      [] pair[2] = "position_x" -> 20 + ((pair[1] \div 12) % 20)
      [] pair[2] = "position_y" -> 40 + ((pair[1] \div 12) % 20)
      [] OTHER -> 60 + ((pair[1] \div 50) % 20)

\* The keys of the structure frame (lines 651-659, 684-692 and 717-721)
StructKeys ==
    {"struct_position_index", "struct_token_type_index", "struct_pad_mask",
     "struct_x_inputs", "struct_y_inputs", "struct_z_inputs", "struct_theta_inputs"}

\* Whether convert_to_tensors(datum, tokenizer) raises RuntimeError: one of
\* the four torch.stack of lines 662-666 does
ConvertFails(datum) ==
    \E key \in {"xyzs", "rgbs", "other_xyzs", "other_rgbs"} :
        StackFails(List([i \in 1..Len(datum[key]) |-> CloudTensor(datum[key][i])]))

StackClouds(clouds) == Stack(List([i \in 1..Len(clouds) |-> CloudTensor(clouds[i])]))

\* convert_to_tensors(datum, tokenizer) (lines 635-694)
ConvertToTensors(datum) ==
    [xyzs |-> StackClouds(datum.xyzs),
     rgbs |-> StackClouds(datum.rgbs),
     object_pad_mask |-> ListTensor(datum.object_pad_mask),
     other_xyzs |-> StackClouds(datum.other_xyzs),
     other_rgbs |-> StackClouds(datum.other_rgbs),
     other_object_pad_mask |-> ListTensor(datum.other_object_pad_mask),
     sentence |-> ListTensor(List([i \in 1..Len(datum.sentence) |->
                                      Tokenize(datum.sentence[i])])),
     sentence_pad_mask |-> ListTensor(datum.sentence_pad_mask),
     token_type_index |-> ListTensor(datum.token_type_index),
     obj_x_outputs |-> ListTensor(datum.obj_x_outputs),
     obj_y_outputs |-> ListTensor(datum.obj_y_outputs),
     obj_z_outputs |-> ListTensor(datum.obj_z_outputs),
     obj_theta_outputs |-> RowsTensor(datum.obj_theta_outputs, 9),
     obj_x_inputs |-> ListTensor(datum.obj_x_inputs),
     obj_y_inputs |-> ListTensor(datum.obj_y_inputs),
     obj_z_inputs |-> ListTensor(datum.obj_z_inputs),
     obj_theta_inputs |-> RowsTensor(datum.obj_theta_inputs, 9),
     position_index |-> ListTensor(datum.position_index),
     t |-> datum.t,
     filename |-> datum.filename]
    @@ (IF "struct_position_index" \in DOMAIN datum
        THEN [struct_position_index |-> ListTensor(datum.struct_position_index),
              struct_token_type_index |-> ListTensor(datum.struct_token_type_index),
              struct_pad_mask |-> ListTensor(datum.struct_pad_mask),
              struct_x_inputs |-> ListTensor(datum.struct_x_inputs),
              struct_y_inputs |-> ListTensor(datum.struct_y_inputs),
              struct_z_inputs |-> ListTensor(datum.struct_z_inputs),
              struct_theta_inputs |-> RowsTensor(datum.struct_theta_inputs, 9)]
        ELSE <<>>)

\* The keys collate_fn joins with torch.cat and with torch.stack
CatKeys == {"xyzs", "rgbs", "other_xyzs", "other_rgbs"}
StackKeys ==
    {"object_pad_mask", "other_object_pad_mask", "sentence", "sentence_pad_mask",
     "token_type_index", "obj_x_outputs", "obj_y_outputs", "obj_z_outputs",
     "obj_theta_outputs", "obj_x_inputs", "obj_y_inputs", "obj_z_inputs",
     "obj_theta_inputs", "position_index"}

\* [dict[key] for dict in data]
Values(data, key) == List([j \in 1..Len(data) |-> data[j][key]])

\* collate_fn(data) (lines 704-723) of a batch of at least one example
CollateFn(data) ==
    LET with_struct == "struct_position_index" \in DOMAIN data[1]
    IN  IF \E key \in CatKeys : CatFails(Values(data, key))
        THEN Raise("RuntimeError", <<>>, <<>>)
        ELSE IF \E key \in StackKeys : StackFails(Values(data, key))
        THEN Raise("RuntimeError", <<>>, <<>>)
        ELSE IF with_struct
                /\ \E j \in 1..Len(data) : "struct_position_index" \notin DOMAIN data[j]
        THEN Raise("KeyError", <<"struct_position_index">>, <<>>)
        ELSE IF with_struct /\ \E key \in StructKeys : StackFails(Values(data, key))
        THEN Raise("RuntimeError", <<>>, <<>>)
        ELSE Return([key \in CatKeys |-> Cat(Values(data, key))]
                    @@ [key \in StackKeys |-> Stack(Values(data, key))]
                    @@ (IF with_struct
                        THEN [key \in StructKeys |-> Stack(Values(data, key))]
                        ELSE <<>>),
                    <<>>, <<>>)

\* ------------------------------------------------------------- the state
VARIABLES
    self,          \* the dataset: the arguments of __init__
    pc,            \* "idle", or "done" once a call has ended
    call,          \* the call that ended last and its arguments
    result,        \* what that call returned or raised
    open_handles,  \* the episode files that call opened and left open
    lists          \* the four lists last passed to prepare_test_data

vars == <<self, pc, call, result, open_handles, lists>>

NoCall == [fn |-> "none"]
NoResult == [status |-> "none"]

\* SequenceDataset(...) (lines 58-65 and 83): the two capacities are the
\* largest or one less than the largest, both together
Init ==
    /\ self \in {c \in [max_num_objects : {MaxNumObjects - 1, MaxNumObjects},
                         max_num_other_objects : {MaxNumOtherObjects - 1, MaxNumOtherObjects},
                         max_num_shape_parameters : {MaxNumShapeParameters},
                         num_pts : {NumPts},
                         use_structure_frame : BOOLEAN,
                         data_augmentation : BOOLEAN] :
                    c.max_num_objects - c.max_num_other_objects
                        = MaxNumObjects - MaxNumOtherObjects}
    /\ pc = "idle"
    /\ call = NoCall
    /\ result = NoResult
    /\ open_handles = 0
    /\ lists = NoLists

\* The file name of an episode: self.arrangement_data[idx]
FileName(p) == <<p.present, p.role, p.shape.type, p.hidden>>

\* d = dataset.get_raw_data(idx, inference_mode, shuffle_object_index).
\* h5 = h5py.File(filename, 'r') is never closed by the code: when the call
\* returns, the handle is released only if the runtime finalizes the object
\* at once; when the call raises, the traceback keeps the frame and the
\* handle with it.
GetRawData ==
    /\ pc = "idle"
    /\ \E p \in Episodes, inference_mode \in BOOLEAN, shuffle_object_index \in BOOLEAN,
          seed \in Seeds :
        \E L \in {BeforeShuffle(self, EpisodeFile(p), FileName(p), inference_mode, seed)} :
        \E perm \in (IF L.status = "raise" \/ ~shuffle_object_index
                     THEN {<<>>} ELSE Permutations0(Len(L.target_objs))) :
        \E r \in {IF L.status = "raise" THEN L
                  ELSE AfterShuffle(self, L, inference_mode, shuffle_object_index, perm)} :
            /\ result' = r
            /\ call' = [fn |-> "get_raw_data", p |-> p,
                        inference_mode |-> inference_mode,
                        shuffle_object_index |-> shuffle_object_index,
                        seed |-> seed]
            /\ open_handles' \in (IF r.status = "raise" THEN {1} ELSE {0, 1})
    /\ pc' = "done"
    /\ UNCHANGED <<self, lists>>

\* The episodes whose scenes _get_images is called on by itself: every id
\* map, each object hidden in each way, the objects listed all to rearrange
SceneEpisodes ==
    {p \in Episodes : /\ p.present = Listed(p.role)
                      /\ p.shape = CircleShape
                      /\ \A o \in p.present : p.role[o] = "rearrange"}

\* scene1 = dataset._get_images(h5, idx); scene2 = dataset._get_images(h5, idx):
\* two calls on the same scene record, with the random generator in any two
\* states.
GetImagesTwice ==
    /\ pc = "idle"
    /\ \E p \in SceneEpisodes, idx \in Keyframes, seed1 \in Seeds, seed2 \in Seeds :
        \E h5 \in {EpisodeFile(p)} :
            /\ result' = Return([first |-> GetImages(self, h5, idx, seed1, 0),
                                 second |-> GetImages(self, h5, idx, seed2, 0)],
                                <<"_get_images", "_get_images">>, <<>>)
            /\ call' = [fn |-> "_get_images", p |-> p, idx |-> idx,
                        seed1 |-> seed1, seed2 |-> seed2]
    /\ pc' = "done"
    /\ UNCHANGED <<self, open_handles, lists>>

\* The episodes a batch is drawn from: every object listed and seen, the
\* structure a circle
BatchEpisodes ==
    {p \in Episodes : /\ p.present = ObjectNames
                      /\ Listed(p.role) = ObjectNames
                      /\ p.hidden = NothingHidden
                      /\ p.shape = CircleShape}

\* The records a batch is made of: those get_raw_data(idx) returns as
\* __getitem__ calls it (lines 696-701), and those prepare_test_data returns
\* for lists of the capacity or one short of it
ExampleRecords ==
    {r.datum : r \in {g \in {AfterShuffle(self, L, FALSE, FALSE, <<>>) :
                                L \in {B \in {BeforeShuffle(self, EpisodeFile(p), FileName(p),
                                                           FALSE, 0) : p \in BatchEpisodes} :
                                           B.status # "raise"}} :
                         g.status = "return"}}
    \cup {PrepareTestDatum(self, [obj_xyzs |-> TestClouds(self, n),
                                  obj_rgbs |-> TestClouds(self, n),
                                  other_obj_xyzs |-> TestClouds(self, self.max_num_other_objects),
                                  other_obj_rgbs |-> TestClouds(self, self.max_num_other_objects)],
                           sp) :
              n \in {self.max_num_objects - 1, self.max_num_objects},
              sp \in {shape \in Shapes : shape.type \in {"circle", "tower"}}}

\* batch = collate_fn([convert_to_tensors(d, tokenizer) for d in records]):
\* the records of one dataset, converted one after the other, then collated
Collate ==
    /\ pc = "idle"
    /\ \E records \in {ExampleRecords} :
       \E b \in 1..MaxBatch :
       \E data \in [1..b -> records] :
            /\ result' = (IF \E j \in 1..b : ConvertFails(data[j])
                          THEN Raise("RuntimeError", <<>>, <<"convert_to_tensors">>)
                          ELSE CollateFn(List([j \in 1..b |-> ConvertToTensors(data[j])])))
            /\ call' = [fn |-> "collate_fn", data |-> data]
    /\ pc' = "done"
    /\ UNCHANGED <<self, open_handles, lists>>

\* datum = dataset.prepare_test_data(...) with lists the caller just built
PrepareTestData ==
    /\ pc = "idle"
    /\ \E n \in 0..(self.max_num_objects + 1), m \in 0..(self.max_num_other_objects + 1),
          structure_parameters \in Shapes :
        \E given \in {[obj_xyzs |-> TestClouds(self, n), obj_rgbs |-> TestClouds(self, n),
                        other_obj_xyzs |-> TestClouds(self, m),
                        other_obj_rgbs |-> TestClouds(self, m)]} :
            /\ result' = Return(PrepareTestDatum(self, given, structure_parameters),
                                <<>>, <<>>)
            /\ lists' = PaddedLists(self, given)
            /\ call' = [fn |-> "prepare_test_data", given |-> given,
                        structure_parameters |-> structure_parameters]
    /\ pc' = "done"
    /\ UNCHANGED <<self, open_handles>>

\* prepare_test_data called once more with the same four lists
PrepareTestDataAgain ==
    /\ pc = "done"
    /\ call.fn = "prepare_test_data"
    /\ result' = Return(PrepareTestDatum(self, lists, call.structure_parameters),
                        <<>>, <<>>)
    /\ lists' = PaddedLists(self, lists)
    /\ call' = [call EXCEPT !.given = lists]
    /\ UNCHANGED <<self, pc, open_handles>>

\* The caller is done with the record or the exception and goes on
\* (for i in range(0, 10) of __main__).
NextExample ==
    /\ pc = "done"
    /\ pc' = "idle"
    /\ call' = NoCall
    /\ result' = NoResult
    /\ open_handles' = 0
    /\ lists' = NoLists
    /\ UNCHANGED self

Next ==
    \/ GetRawData
    \/ GetImagesTwice
    \/ Collate
    \/ PrepareTestData
    \/ PrepareTestDataAgain
    \/ NextExample

Spec == Init /\ [][Next]_vars

\* The values max_num_shape_parameters is configured with: the one of
\* __main__, one less and one more
ShapeParameterCounts == (MaxNumShapeParameters - 1)..(MaxNumShapeParameters + 1)

\* SequenceDataset(...) with each of these values, the largest capacities
\* and no augmentation
InitShapeParameters ==
    /\ self \in [max_num_objects : {MaxNumObjects},
                 max_num_other_objects : {MaxNumOtherObjects},
                 max_num_shape_parameters : ShapeParameterCounts,
                 num_pts : {NumPts},
                 use_structure_frame : BOOLEAN,
                 data_augmentation : {FALSE}]
    /\ pc = "idle"
    /\ call = NoCall
    /\ result = NoResult
    /\ open_handles = 0
    /\ lists = NoLists

SpecShapeParameters == InitShapeParameters /\ [][Next]_vars

\* ------------------------------------------------------------ the claims
\* A call of get_raw_data has ended, and it has returned a record.
Ended == pc = "done" /\ call.fn = "get_raw_data"
Returned == Ended /\ result.status = "return"

\* len(goal_specification["rearrange"]["objects"]) and the number of anchor
\* and distract objects of the episode of the call
NumRearrange == Cardinality(WithRole(call.p, "rearrange"))
NumOther ==
    Cardinality(WithRole(call.p, "anchor")) + Cardinality(WithRole(call.p, "distract"))

\* The slots of the target objects of the returned record
Slots == 1..Len(result.datum.object_pad_mask)

\* The target object whose data the call put in slot i
SlotObject(i) ==
    result.locals.target_objs[IF call.shuffle_object_index
                              THEN result.locals.shuffle_object_indices[i] + 1
                              ELSE i]

\* The pose with the rotation block theta and the translation x, y, z
PoseOf(x, y, z, theta) ==
    << <<theta[1], theta[2], theta[3], x>>, <<theta[4], theta[5], theta[6], y>>,
       <<theta[7], theta[8], theta[9], z>>, <<0, 0, 0, 1>> >>

StoredOutputPose(i) ==
    PoseOf(result.datum.obj_x_outputs[i], result.datum.obj_y_outputs[i],
           result.datum.obj_z_outputs[i], result.datum.obj_theta_outputs[i])
StoredInputPose(i) ==
    PoseOf(result.datum.obj_x_inputs[i], result.datum.obj_y_inputs[i],
           result.datum.obj_z_inputs[i], result.datum.obj_theta_inputs[i])

\* The pure translation by c
TranslationBy(c) ==
    << <<1, 0, 0, c[1]>>, <<0, 1, 0, c[2]>>, <<0, 0, 1, c[3]>>, <<0, 0, 0, 1>> >>

\* C1: the pose T stored for a target object is P_goal . P_cur^-1 . C in the
\* world frame and S^-1 . P_goal . P_cur^-1 . C in the structure frame, in
\* that order: undoing C, then P_cur^-1 (and S^-1 first) from T leaves the
\* pose the episode recorded for that object at keyframe 0, where P_cur is
\* its recorded pose at keyframe step_t and C the translation to the centre
\* of its cloud in the record.
C1_GoalPoseComposition ==
    Returned =>
        \A i \in Slots :
            result.datum.object_pad_mask[i] = 0 =>
                LET obj    == SlotObject(i)
                    T      == StoredOutputPose(i)
                    c      == CloudMean(result.datum.xyzs[i])
                    C_inv  == TranslationBy(<<0 - c[1], 0 - c[2], 0 - c[3]>>)
                    P_goal == RecordedPose(obj, 0)
                    P_cur  == RecordedPose(obj, NumRearrange)
                    S      == StructurePose(call.p.shape)
                    undone == MatMul(MatMul(T, C_inv), P_cur)
                IN  /\ StoredInputPose(i) = T
                    /\ IF self.use_structure_frame
                       THEN MatMul(S, undone) = P_goal
                       ELSE undone = P_goal

\* C1 witness: a record in the structure frame whose two targets were
\* swapped by the shuffle
C1_Witness ==
    /\ Returned
    /\ self.use_structure_frame
    /\ call.shuffle_object_index
    /\ NumRearrange = 2
    /\ result.locals.shuffle_object_indices = <<1, 0>>
    /\ call.p.shape.type = "tower"

\* k zeros followed by cap - k ones
PadMask(k, cap) == [i \in 1..cap |-> IF i <= k THEN 0 ELSE 1]

\* C2: every returned record has max_num_objects target clouds, colours and
\* mask entries and max_num_other_objects of the others; the masks are k
\* zeros then ones, and m zeros then ones, for the k rearrange objects and
\* the m anchor and distract objects of the episode.
C2_PaddedLengthsAndMasks ==
    Returned =>
        /\ NumRearrange <= self.max_num_objects
        /\ NumOther <= self.max_num_other_objects
        /\ Len(result.datum.xyzs) = self.max_num_objects
        /\ Len(result.datum.rgbs) = self.max_num_objects
        /\ Len(result.datum.object_pad_mask) = self.max_num_objects
        /\ Len(result.datum.other_xyzs) = self.max_num_other_objects
        /\ Len(result.datum.other_rgbs) = self.max_num_other_objects
        /\ Len(result.datum.other_object_pad_mask) = self.max_num_other_objects
        /\ result.datum.object_pad_mask = PadMask(NumRearrange, self.max_num_objects)
        /\ result.datum.other_object_pad_mask
               = PadMask(NumOther, self.max_num_other_objects)

\* C2 witness: a shuffled record of two targets and one other object with
\* capacities three and two
C2_Witness ==
    /\ Returned
    /\ call.shuffle_object_index
    /\ NumRearrange = 2 /\ NumOther = 1
    /\ self.max_num_objects = 3 /\ self.max_num_other_objects = 2
    /\ result.datum.object_pad_mask = <<0, 0, 1>>
    /\ result.datum.other_object_pad_mask = <<0, 1>>

\* C3: with shuffle_object_index and k < max_num_objects the shuffle moves
\* only the first k slots: whatever the permutation, the slots from k on
\* keep their index and their padding, the mask is 1 there and 0 before.
C3_ShuffleKeepsPaddedTail ==
    (Returned /\ call.shuffle_object_index /\ NumRearrange < self.max_num_objects) =>
        \A i \in Slots :
            IF i > NumRearrange
            THEN /\ result.locals.shuffle_object_indices[i] = i - 1
                 /\ result.datum.object_pad_mask[i] = 1
                 /\ result.datum.xyzs[i] = ZeroCloud(PadRows)
                 /\ result.datum.rgbs[i] = ZeroCloud(PadRows)
            ELSE /\ result.locals.shuffle_object_indices[i] < NumRearrange
                 /\ result.datum.object_pad_mask[i] = 0
                 /\ result.datum.xyzs[i] # ZeroCloud(PadRows)

\* C3 witness: two targets swapped by the shuffle in front of one pad slot
C3_Witness ==
    /\ Returned
    /\ call.shuffle_object_index
    /\ NumRearrange = 2
    /\ self.max_num_objects = 3
    /\ SubSeq(result.locals.shuffle_object_indices, 1, 2) = <<1, 0>>
    /\ result.datum.object_pad_mask = <<0, 0, 1>>

\* s is in the order of sorted()
IsSorted(s) == \A i, j \in 1..Len(s) : i < j => StrLess(s[i], s[j])

\* C4: the targets are the first k names of the sorted id map, in reverse
\* for a circle or a line and as sorted for a tower or a dinner; the other
\* objects are the names after them, as sorted; a call with any other type
\* ends in an error (KeyError once the three asserts have passed).
C4_OrderingRule ==
    Ended =>
        LET type == call.p.shape.type
        IN  /\ Returned =>
                LET targets == result.locals.target_objs
                    others  == result.locals.other_objs
                    sorted  == IF type \in {"circle", "line"} THEN Reverse(targets)
                               ELSE targets
                IN  /\ type \in {"circle", "line", "tower", "dinner"}
                    /\ Len(targets) = NumRearrange
                    /\ Range(sorted \o others) = call.p.present
                    /\ IsSorted(sorted \o others)
            /\ type \notin {"circle", "line", "tower", "dinner"} =>
                /\ result.status = "raise"
                /\ (/\ Cardinality(call.p.present) = NumRearrange + NumOther
                    /\ NumRearrange <= self.max_num_objects
                    /\ NumOther <= self.max_num_other_objects)
                   => (result.exc = "KeyError" /\ result.args = <<type>>)

\* C4 witness: a circle whose targets object_1 and object_10 come out as
\* object_10, object_1 in front of the other object, object_2
C4_Witness ==
    /\ Returned
    /\ call.p.shape.type = "circle"
    /\ result.locals.target_objs = << <<"object_", 1, 0>>, <<"object_", 1>> >>
    /\ result.locals.other_objs = << <<"object_", 2>> >>

\* The sentence and its mask as the claim words them
ClaimedSentence(sp) ==
    LET first4 == << <<sp.type, "shape">>, <<sp.rotation[3], "rotation">>,
                     <<sp.position[1], "position_x">>, <<sp.position[2], "position_y">> >>
    IN  CASE sp.type = "circle" -> <<first4 \o << <<sp.radius, "radius">> >>, <<0, 0, 0, 0, 0>> >>
          [] sp.type = "line" ->
                <<first4 \o << <<sp.length \div 2, "radius">> >>, <<0, 0, 0, 0, 0>> >>
          [] sp.type \in {"tower", "dinner"} ->
                <<first4 \o << <<"PAD", None>> >>, <<0, 0, 0, 0, 1>> >>

\* C5: the sentence of a record of get_raw_data and of prepare_test_data is
\* (type, shape), (rotation[2], rotation), (position[0], position_x),
\* (position[1], position_y) and then (radius, radius) for a circle or
\* (length / 2, radius) for a line with the mask 0 0 0 0 0, or (PAD, None)
\* for a tower or a dinner with the mask 0 0 0 0 1.
C5_Sentence ==
    (pc = "done" /\ call.fn \in {"get_raw_data", "prepare_test_data"}
                 /\ result.status = "return") =>
        LET sp == IF call.fn = "get_raw_data" THEN call.p.shape
                  ELSE call.structure_parameters
        IN  sp.type \in {"circle", "line", "tower", "dinner"} =>
                /\ result.datum.sentence = ClaimedSentence(sp)[1]
                /\ result.datum.sentence_pad_mask = ClaimedSentence(sp)[2]

\* C5 witness: a record of get_raw_data for the line of length 500
C5_Witness ==
    /\ Returned
    /\ call.p.shape.type = "line"
    /\ result.datum.sentence[5] = <<250, "radius">>
    /\ result.datum.sentence_pad_mask = <<0, 0, 0, 0, 0>>

\* C6: a record is returned only when the id map has as many objects as
\* the three lists of the goal specification together; when it has not, the
\* call ends in the assertion error that carries the two counts, and no
\* image has been read by then.
C6_CountMismatch ==
    Ended =>
        /\ Returned => Cardinality(call.p.present) = NumRearrange + NumOther
        /\ Cardinality(call.p.present) # NumRearrange + NumOther =>
            /\ result.status = "raise"
            /\ result.exc = "AssertionError"
            /\ result.args = <<Cardinality(call.p.present), NumRearrange + NumOther>>
            /\ "_get_images" \notin Range(result.trace)

\* C6 witness: three objects in the id map, two in the lists
C6_Witness ==
    /\ Ended
    /\ Cardinality(call.p.present) = 3
    /\ NumRearrange = 1 /\ NumOther = 1
    /\ result.status = "raise"
    /\ result.args = <<3, 2>>

\* C7, as claimed: a call with more rearrange objects than max_num_objects,
\* or more anchor and distract objects than max_num_other_objects, ends in
\* an error that reports the count that is too large.
C7_CapacityErrorReportsCounts ==
    Ended =>
        /\ NumRearrange > self.max_num_objects =>
              (result.status = "raise" /\ NumRearrange \in Range(result.args))
        /\ NumOther > self.max_num_other_objects =>
              (result.status = "raise" /\ NumOther \in Range(result.args))

\* The object the episode hides has no pixel in the scene of keyframe t:
\* none with its id, or none with a depth in the valid range.
NoPixelAt(t) ==
    /\ call.p.hidden.how \in {"seg", "depth"}
    /\ t = (IF call.p.hidden.goal THEN 0 ELSE NumRearrange)

\* C8: when an object of the episode, target or other, has no pixel with
\* its id and a valid depth in the current scene, the call ends in an
\* error; in inference mode so it does when an object has none in the scene
\* of keyframe 0.  The error is the bare Exception once the asserts and
\* the structure type have passed.
C8_EmptyMaskRaises ==
    (Ended /\ (NoPixelAt(NumRearrange) \/ (call.inference_mode /\ NoPixelAt(0)))) =>
        /\ result.status = "raise"
        /\ (/\ NumRearrange <= self.max_num_objects
            /\ NumOther <= self.max_num_other_objects)
           => result.exc = "Exception"

\* C8 witness: inference mode, and a target without a pixel of its id in the
\* goal scene alone
C8_Witness ==
    /\ Ended
    /\ call.inference_mode
    /\ call.p.hidden.goal /\ call.p.hidden.how = "seg"
    /\ NumRearrange = 2
    /\ call.p.role[call.p.hidden.obj] = "rearrange"
    /\ result.status = "raise" /\ result.exc = "Exception"
    /\ Len(result.trace) = 3

\* C9: in a returned record a slot with object_pad_mask 1 has -100 in
\* x, y, z and the nine theta outputs and 0 in the inputs; a slot with
\* object_pad_mask 0 has the same pose, a rotation and a centre, in both.
C9_PadSlotsIgnored ==
    Returned =>
        \A i \in Slots :
            IF result.datum.object_pad_mask[i] = 1
            THEN /\ result.datum.obj_x_outputs[i] = -100
                 /\ result.datum.obj_y_outputs[i] = -100
                 /\ result.datum.obj_z_outputs[i] = -100
                 /\ result.datum.obj_theta_outputs[i] = [j \in 1..9 |-> -100]
                 /\ result.datum.obj_x_inputs[i] = 0
                 /\ result.datum.obj_y_inputs[i] = 0
                 /\ result.datum.obj_z_inputs[i] = 0
                 /\ result.datum.obj_theta_inputs[i] = [j \in 1..9 |-> 0]
            ELSE /\ Len(result.datum.obj_theta_outputs[i]) = 9
                 /\ StoredInputPose(i) = StoredOutputPose(i)
                 /\ Det3(StoredOutputPose(i)) = 1

\* C9 witness: a shuffled record with one target and two pad slots
C9_Witness ==
    /\ Returned
    /\ call.shuffle_object_index
    /\ result.datum.object_pad_mask = <<0, 1, 1>>
    /\ result.datum.obj_x_outputs[3] = -100

\* C10, as claimed: when a call of get_raw_data has ended, returned or
\* raised, no handle of the episode file it opened is open.
C10_HandleReleased == Ended => open_handles = 0

\* Two calls of _get_images on one scene record have ended.
ImagesEnded == pc = "done" /\ call.fn = "_get_images"

\* The position of a step in the steps of a call, 0 when it is not there
StepAt(calls, step) ==
    IF \E i \in 1..Len(calls) : calls[i] = step
    THEN CHOOSE i \in 1..Len(calls) : calls[i] = step ELSE 0

\* The number of times a call invoked a step
StepCount(calls, step) == Cardinality({i \in 1..Len(calls) : calls[i] = step})

\* The depth of the record as decoded, without noise
DecodedDepth(p, idx) ==
    [px \in Pixels |-> (RawDepthImage(p, idx)[px] * 4000) \div 20000]

\* C11: without data_augmentation a call of _get_images invokes neither
\* noise step and draws no random value, its depth is the decoded depth,
\* and two calls on one scene record agree on depth and points whatever
\* the state of the random generator; with data_augmentation each call
\* invokes add_noise_to_depth once, before compute_xyz, and
\* add_noise_to_xyz once, after it.
C11_NoiseOnlyWhenAugmenting ==
    ImagesEnded =>
        \A scene \in {result.datum.first, result.datum.second} :
            IF self.data_augmentation
            THEN /\ StepCount(scene.calls, "add_noise_to_depth") = 1
                 /\ StepCount(scene.calls, "add_noise_to_xyz") = 1
                 /\ StepAt(scene.calls, "add_noise_to_depth")
                        < StepAt(scene.calls, "compute_xyz")
                 /\ StepAt(scene.calls, "compute_xyz")
                        < StepAt(scene.calls, "add_noise_to_xyz")
            ELSE /\ StepCount(scene.calls, "add_noise_to_depth") = 0
                 /\ StepCount(scene.calls, "add_noise_to_xyz") = 0
                 /\ scene.draws = <<>>
                 /\ scene.depth = DecodedDepth(call.p, call.idx)
                 /\ result.datum.first.depth = result.datum.second.depth
                 /\ result.datum.first.xyz = result.datum.second.xyz

\* C11 witness: without data_augmentation, two calls in different states of
\* the random generator on a scene that shows an object
C11_Witness ==
    /\ ImagesEnded
    /\ ~self.data_augmentation
    /\ call.seed1 # call.seed2
    /\ call.p.present # {}
    /\ result.datum.first.xyz = result.datum.second.xyz
    /\ result.datum.first.calls = <<"compute_xyz", "transform_points">>

\* ---------------------------------------------------------------- C12
CollateEnded == pc = "done" /\ call.fn = "collate_fn"

\* Whether a record carries the fields of the structure frame
HasStruct(datum) == "struct_position_index" \in DOMAIN datum

\* A batch of records with and records without the structure frame
Mixed(data) ==
    /\ \E j \in 1..Len(data) : HasStruct(data[j])
    /\ \E j \in 1..Len(data) : ~HasStruct(data[j])

\* C12: collate_fn on a batch that mixes examples with and examples without
\* the fields of the structure frame ends in an error, whichever example
\* comes first; it never returns a batch.
C12_MixedBatchRaises ==
    (CollateEnded /\ Mixed(call.data)) => result.status = "raise"

\* ---------------------------------------------------------------- C13
\* The examples of the batch of the call, as convert_to_tensors made them
Example(j) == ConvertToTensors(call.data[j])

\* Whether the clouds of one kind have the same number of points in all the
\* records of a batch: the records were made with the same num_pts, and a
\* list of pads alone is not next to a list of clouds of another size
SamePointCounts(data) ==
    \A key \in CatKeys : \A j \in 1..Len(data) :
        \A i \in 1..Len(data[j][key]) : data[j][key][i].rows = data[1][key][1].rows

RecordReturned ==
    /\ pc = "done"
    /\ call.fn \in {"get_raw_data", "prepare_test_data"}
    /\ result.status = "return"

\* The token types and the positions over all the zones of the record of the
\* call: those of the sequence, then those of the structure frame when
\* use_structure_frame is enabled
FlatTokenTypes ==
    result.datum.token_type_index
        \o (IF self.use_structure_frame THEN result.datum.struct_token_type_index ELSE <<>>)
FlatPositions ==
    result.datum.position_index
        \o (IF self.use_structure_frame THEN result.datum.struct_position_index ELSE <<>>)

\* The zone a flat index is in and the first index of that zone
ZoneStart(i) ==
    LET S == self.max_num_shape_parameters
        O == self.max_num_other_objects
        T == self.max_num_objects
    IN  IF i <= S THEN <<0, 1>>
        ELSE IF i <= S + O THEN <<1, S + 1>>
        ELSE IF i <= S + O + T THEN <<2, S + O + 1>>
        ELSE <<3, S + O + T + 1>>

\* C14: token_type_index and position_index of every record are one flat
\* index over the zones of the structure description (type 0, length
\* max_num_shape_parameters), the other objects (type 1, length
\* max_num_other_objects), the target objects (type 2, length
\* max_num_objects) and, with use_structure_frame, one structure token
\* (type 3); the positions of each zone are 0, 1, 2, ... from its start.
C14_TokenZones ==
    RecordReturned =>
        /\ Len(FlatTokenTypes) = self.max_num_shape_parameters + self.max_num_other_objects
                                 + self.max_num_objects
                                 + (IF self.use_structure_frame THEN 1 ELSE 0)
        /\ Len(FlatPositions) = Len(FlatTokenTypes)
        /\ \A i \in 1..Len(FlatTokenTypes) :
            /\ FlatTokenTypes[i] = ZoneStart(i)[1]
            /\ FlatPositions[i] = i - ZoneStart(i)[2]

\* C14 witness: a record of get_raw_data with the structure frame and with
\* more than one slot in every zone of the sequence
C14_Witness ==
    /\ Returned
    /\ self.use_structure_frame
    /\ self.max_num_other_objects > 1
    /\ FlatTokenTypes[Len(FlatTokenTypes)] = 3
    /\ FlatPositions[self.max_num_shape_parameters + 2] = 1
    /\ FlatPositions[self.max_num_shape_parameters + self.max_num_other_objects + 1] = 0

\* ---------------------------------------------------------------- C15
\* C15: whatever max_num_shape_parameters the dataset is configured with and
\* whatever the structure type, the sentence and the sentence_pad_mask of a
\* record are max_num_shape_parameters long, as long as the zone of type 0
\* of token_type_index and position_index.
C15_SentenceLength ==
    RecordReturned =>
        /\ Len(result.datum.sentence) = self.max_num_shape_parameters
        /\ Len(result.datum.sentence_pad_mask) = self.max_num_shape_parameters
        /\ Len(result.datum.sentence)
             = Cardinality({i \in 1..Len(result.datum.token_type_index) :
                               result.datum.token_type_index[i] = 0})

\* ---------------------------------------------------------------- C16
\* C16: for every episode that passes the count check, whatever the names of
\* its objects, the targets of get_raw_data are exactly the names under
\* goal_specification["rearrange"]["objects"] and the others exactly the
\* names under anchor and distract.
C16_PartitionByRole ==
    Returned =>
        /\ Range(result.locals.target_objs) = WithRole(call.p, "rearrange")
        /\ Range(result.locals.other_objs)
             = WithRole(call.p, "anchor") \cup WithRole(call.p, "distract")

\* ---------------------------------------------------------------- C17
\* C17: when get_raw_data shuffles, every field of a target slot is moved by
\* the same permutation, the inference fields goal_obj_poses,
\* current_obj_poses and target_objs included, and the shuffle never makes
\* the call fail: a record is returned for every number k of targets up to
\* max_num_objects, also for k < max_num_objects in inference mode.
C17_ShuffleAligned ==
    (Ended /\ call.shuffle_object_index) =>
        /\ result.status = "raise" => result.exc # "IndexError"
        /\ (Returned /\ call.inference_mode) =>
            \A i \in 1..NumRearrange :
                /\ result.datum.object_pad_mask[i] = 0
                /\ result.datum.target_objs[i] = SlotObject(i)
                /\ result.datum.goal_obj_poses[i] = RecordedPose(SlotObject(i), 0)
                /\ result.datum.current_obj_poses[i]
                     = RecordedPose(SlotObject(i), NumRearrange)

\* ---------------------------------------------------------------- C18
PrepareEnded == pc = "done" /\ call.fn = "prepare_test_data"

\* The number of clouds of a list that are clouds of the caller, not pads
RealClouds(clouds) ==
    Cardinality({i \in 1..Len(clouds) : clouds[i] # ZeroCloud(PadRows)})

\* The mask with 0 for the first n entries and 1 for the others
MaskOfReal(mask, n) ==
    \A i \in 1..Len(mask) : mask[i] = (IF i <= n THEN 0 ELSE 1)

\* C18: prepare_test_data leaves the four lists of the caller as long as
\* they were, so that a call, and a second call with the same lists, return
\* masks with 0 for exactly the real clouds of the caller and 1 for the
\* padded tail.
C18_CallerListsUnchanged ==
    PrepareEnded =>
        /\ \A key \in DOMAIN lists : Len(lists[key]) = Len(call.given[key])
        /\ MaskOfReal(result.datum.object_pad_mask, RealClouds(call.given.obj_xyzs))
        /\ MaskOfReal(result.datum.other_object_pad_mask,
                      RealClouds(call.given.other_obj_xyzs))

====
